---- MODULE Spec2Model ----
(***************************************************************************)
(* Model of MadLife's semantic event index: EventEmbeddingManager in       *)
(* src/embedding_manager.py (text normaliser, record composer, ingestion,  *)
(* similarity search, result projection, statistics and reset) on top of   *)
(* a ChromaDB persistent collection and a sentence-embedding model.        *)
(*                                                                         *)
(* Text is a sequence of one-character strings.  Real-valued distances are *)
(* fixed-point integers: the value 1.0 is One units.                       *)
(***************************************************************************)
EXTENDS Integers, Sequences, FiniteSets, TLC

(***************************************************************************)
(* Bounds of the model.                                                    *)
(***************************************************************************)
\* longest dataset handed to add_events
MaxRows == 2
\* largest n_results handed to a search
MaxK == 2
\* longest document text handed to the result projection
MaxDocLen == 203
\* longest text and largest number handed to _clean_text
MaxTextLen == 3
MaxNum == 11

(***************************************************************************)
(* Python values of a dataframe cell or a query argument: a str, a float   *)
(* NaN (a missing cell), None, or an int.                                  *)
(***************************************************************************)
Str(s) == [kind |-> "str", s |-> s, n |-> 0]
NaN == [kind |-> "nan", s |-> <<>>, n |-> 0]
None == [kind |-> "none", s |-> <<>>, n |-> 0]
Num(n) == [kind |-> "num", s |-> <<>>, n |-> n]

Digit(d) == <<"0", "1", "2", "3", "4", "5", "6", "7", "8", "9">>[d + 1]

RECURSIVE IntToStr(_)
IntToStr(n) == IF n < 10 THEN <<Digit(n)>> ELSE IntToStr(n \div 10) \o <<Digit(n % 10)>>

\* str(v)
PyStr(v) ==
    CASE v.kind = "str" -> v.s
      [] v.kind = "nan" -> <<"n", "a", "n">>
      [] v.kind = "none" -> <<"N", "o", "n", "e">>
      [] v.kind = "num" -> IntToStr(v.n)

\* variant: only None counts as missing
IsNa_none_only(v) == v.kind = "none"

\* pd.isna(v)
IsNa(v) == v.kind \in {"nan", "none"}

\* bool(v): NaN is truthy, None, "" and 0 are falsy
Truthy(v) ==
    CASE v.kind = "str" -> v.s # <<>>
      [] v.kind = "nan" -> TRUE
      [] v.kind = "none" -> FALSE
      [] v.kind = "num" -> v.n # 0

(***************************************************************************)
(* _clean_text                                                             *)
(***************************************************************************)
\* the characters \s matches
Whitespace == {" "}

RECURSIVE LStrip(_)
LStrip(s) == IF s # <<>> /\ Head(s) \in Whitespace THEN LStrip(Tail(s)) ELSE s

RECURSIVE RStrip(_)
RStrip(s) ==
    IF s # <<>> /\ s[Len(s)] \in Whitespace THEN RStrip(SubSeq(s, 1, Len(s) - 1)) ELSE s

\* str.strip()
Strip(s) == RStrip(LStrip(s))

\* re.sub(r'\s+', ' ', s)
RECURSIVE CollapseWhitespace(_)
CollapseWhitespace(s) ==
    IF s = <<>> THEN <<>>
    ELSE IF Head(s) \in Whitespace
         THEN <<" ">> \o CollapseWhitespace(LStrip(s))
         ELSE <<Head(s)>> \o CollapseWhitespace(Tail(s))

\* number of leading characters of s that are not '>'
RECURSIVE NonCloseRun(_)
NonCloseRun(s) == IF s # <<>> /\ Head(s) # ">" THEN 1 + NonCloseRun(Tail(s)) ELSE 0

\* length of the match of <[^>]+> at the head of s, 0 when there is none
TagMatchLen(s) ==
    IF s # <<>> /\ Head(s) = "<"
    THEN LET run == NonCloseRun(Tail(s))
         IN  IF run >= 1 /\ run + 2 <= Len(s) THEN run + 2 ELSE 0
    ELSE 0

\* re.sub(r'<[^>]+>', '', s)
RECURSIVE RemoveTags(_)
RemoveTags(s) ==
    IF s = <<>> THEN <<>>
    ELSE LET m == TagMatchLen(s)
         IN  IF m > 0 THEN RemoveTags(SubSeq(s, m + 1, Len(s)))
             ELSE <<Head(s)>> \o RemoveTags(Tail(s))

Letters ==
    {"a", "b", "c", "d", "e", "f", "g", "h", "i", "j", "k", "l", "m", "n", "o", "p", "q",
     "r", "s", "t", "u", "v", "w", "x", "y", "z",
     "A", "B", "C", "D", "E", "F", "G", "H", "I", "J", "K", "L", "M", "N", "O", "P", "Q",
     "R", "S", "T", "U", "V", "W", "X", "Y", "Z"}

Digits == {"0", "1", "2", "3", "4", "5", "6", "7", "8", "9"}

\* the characters of [$-_@.&+] (the range '$'..'_') and [!*\\(\\),] that are
\* neither letters nor digits
UrlPunct ==
    {"$", "%", "&", "'", "(", ")", "*", "+", ",", "-", ".", "/", ":", ";", "<", "=", ">",
     "?", "@", "[", "\\", "]", "^", "_", "!"}

UrlChars == Letters \cup Digits \cup UrlPunct

RECURSIVE UrlRun(_)
UrlRun(s) == IF s # <<>> /\ Head(s) \in UrlChars THEN 1 + UrlRun(Tail(s)) ELSE 0

HasPrefix(s, p) == Len(s) >= Len(p) /\ SubSeq(s, 1, Len(p)) = p

\* length of the match of http[s]?://(?:...)+ at the head of s, 0 when there is none
UrlMatchLen(s) ==
    LET plain == <<"h", "t", "t", "p", ":", "/", "/">>
        secure == <<"h", "t", "t", "p", "s", ":", "/", "/">>
        pre == IF HasPrefix(s, secure) THEN Len(secure)
               ELSE IF HasPrefix(s, plain) THEN Len(plain) ELSE 0
        run == IF pre = 0 THEN 0 ELSE UrlRun(SubSeq(s, pre + 1, Len(s)))
    IN  IF run >= 1 THEN pre + run ELSE 0

\* re.sub(r'http[s]?://(?:...)+', '', s)
RECURSIVE RemoveUrls(_)
RemoveUrls(s) ==
    IF s = <<>> THEN <<>>
    ELSE LET m == UrlMatchLen(s)
         IN  IF m > 0 THEN RemoveUrls(SubSeq(s, m + 1, Len(s)))
             ELSE <<Head(s)>> \o RemoveUrls(Tail(s))

\* variant: without the test for missing and empty values
clean_text_unguarded(v) == RemoveUrls(RemoveTags(CollapseWhitespace(Strip(PyStr(v)))))

\* self._clean_text(text)
clean_text(v) ==
    IF IsNa(v) \/ ~Truthy(v) THEN <<>>
    ELSE RemoveUrls(RemoveTags(CollapseWhitespace(Strip(PyStr(v)))))

(***************************************************************************)
(* _prepare_event_text                                                     *)
(***************************************************************************)
\* index of the last '/' of s, 0 when there is none
RECURSIVE LastSlash(_)
LastSlash(s) ==
    IF s = <<>> THEN 0 ELSE IF s[Len(s)] = "/" THEN Len(s)
    ELSE LastSlash(SubSeq(s, 1, Len(s) - 1))

\* tipo.split('/')[-1] if '/' in tipo else tipo
LastSegment(s) == SubSeq(s, LastSlash(s) + 1, Len(s))

\* the separators and labels of the composed text (the accented i of the
\* category label is written i)
DescriptionSep == <<".", " ">>
CategoryLabel == <<".", " ", "C", "a", "t", "e", "g", "o", "r", "i", "a", ":", " ">>
DistrictLabel == <<".", " ", "D", "i", "s", "t", "r", "i", "t", "o", ":", " ">>

\* variant: the whole category path goes into the text
prepare_event_text_full_path(row) ==
    LET title == clean_text(row.TITULO)
        description == clean_text(row.DESCRIPCION)
        tipo == clean_text(row.TIPO)
        district == clean_text(row.DISTRITO)
        t1 == title
        t2 == IF description # <<>> THEN t1 \o DescriptionSep \o description ELSE t1
        t3 == IF tipo # <<>> THEN t2 \o CategoryLabel \o tipo ELSE t2
        t4 == IF district # <<>> THEN t3 \o DistrictLabel \o district ELSE t3
    IN  Strip(t4)

\* self._prepare_event_text(event_row)
prepare_event_text(row) ==
    LET title == clean_text(row.TITULO)
        description == clean_text(row.DESCRIPCION)
        tipo == clean_text(row.TIPO)
        district == clean_text(row.DISTRITO)
        t1 == title
        t2 == IF description # <<>> THEN t1 \o DescriptionSep \o description ELSE t1
        t3 == IF tipo # <<>> THEN t2 \o CategoryLabel \o LastSegment(tipo) ELSE t2
        t4 == IF district # <<>> THEN t3 \o DistrictLabel \o district ELSE t3
    IN  Strip(t4)

\* the metadata dict add_events builds for a row
RowMetadata(row) ==
    [title |-> row.TITULO,
     price |-> Str(PyStr(row.PRECIO)),
     free |-> Str(PyStr(row.GRATUITO)),
     date |-> Str(PyStr(row.FECHA)),
     time |-> Str(PyStr(row.HORA)),
     district |-> Str(PyStr(row.DISTRITO)),
     venue |-> Str(PyStr(row.NOMBRE)),
     type |-> Str(PyStr(row.TIPO)),
     audience |-> Str(PyStr(row.AUDIENCIA))]

\* str(row['ID-EVENTO'])
RowId(row) == PyStr(row.ID)

(***************************************************************************)
(* The event records the data loader can hand over (rows of the dataframe) *)
(* and the query texts a caller can pass.                                  *)
(***************************************************************************)
BlankRow ==
    [ID |-> Num(0), TITULO |-> Str(<<>>), DESCRIPCION |-> Str(<<>>), TIPO |-> Str(<<>>),
     DISTRITO |-> Str(<<>>), PRECIO |-> NaN, GRATUITO |-> Num(1),
     FECHA |-> Str(<<"1">>), HORA |-> NaN, NOMBRE |-> Str(<<"v">>), AUDIENCIA |-> NaN]

Catalogue ==
    << \* A: title and district only
       [BlankRow EXCEPT !.ID = Num(1), !.TITULO = Str(<<"a", "b">>), !.DESCRIPCION = NaN,
                        !.DISTRITO = Str(<<"c">>)],
       \* B: no title, a description with a run of spaces, a category path
       [BlankRow EXCEPT !.ID = Num(2), !.TITULO = NaN,
                        !.DESCRIPCION = Str(<<"a", " ", " ", "b">>),
                        !.TIPO = Str(<<"x", "/", "y">>), !.DISTRITO = NaN,
                        !.GRATUITO = Num(0)],
       \* C: every text field blank or missing
       [BlankRow EXCEPT !.ID = Num(3), !.TITULO = Str(<<" ">>), !.DESCRIPCION = NaN],
       \* A again with other content: its description is only a URL
       [BlankRow EXCEPT !.ID = Num(1), !.TITULO = Str(<<"b">>),
                        !.DESCRIPCION = Str(<<"h", "t", "t", "p", ":", "/", "/", "x">>),
                        !.DISTRITO = Str(<<"c", "d">>)] >>

Queries ==
    << None, Str(<<>>), Str(<<" ", " ">>), Str(<<"a">>), Str(<<"a", "a", "b">>),
       Str(<<"<", "i", ">", "b">>) >>

\* filter_metadata arguments: None, or a dict as its items in insertion order
NoFilter == [given |-> FALSE, items |-> <<>>]
Dict(items) == [given |-> TRUE, items |-> items]

Filters ==
    << NoFilter,
       Dict(<<>>),
       Dict(<< <<"district", Str(<<"c">>)>> >>),
       Dict(<< <<"district", Str(<<>>)>> >>),
       Dict(<< <<"district", Str(<<"c">>)>>, <<"free", Str(<<"1">>)>> >>) >>

\* the batch_size arguments tried
BatchSizes == {1, 2}

(***************************************************************************)
(* The embedding engine (SentenceTransformer.encode): a deterministic      *)
(* function from a text to a vector, here the counts of two letters.       *)
(* The collection is created without "hnsw:space", so the store reports    *)
(* the squared Euclidean distance.                                         *)
(***************************************************************************)
RECURSIVE Occurrences(_, _)
Occurrences(s, c) ==
    IF s = <<>> THEN 0 ELSE (IF Head(s) = c THEN 1 ELSE 0) + Occurrences(Tail(s), c)

Embed(text) == <<Occurrences(text, "a"), Occurrences(text, "b")>>

\* variant: the vectors come back in the reverse of the input order
encode_reversed(texts) == [i \in 1..Len(texts) |-> Embed(texts[Len(texts) + 1 - i])]

\* model.encode(texts): one vector per text, in input order
encode(texts) == [i \in 1..Len(texts) |-> Embed(texts[i])]

\* the value 1.0 in distance units: vector components count halves
One == 4

Distance(u, v) == (u[1] - v[1]) * (u[1] - v[1]) + (u[2] - v[2]) * (u[2] - v[2])

(***************************************************************************)
(* State.                                                                  *)
(*   docs    the documents of the persisted collection, each a record      *)
(*           [id, document, metadata, embedding]                           *)
(*   exists  the collection self.collection refers to exists in the store  *)
(*   dirFilled  the persistence directory exists and is not empty (it is   *)
(*           once a PersistentClient was opened on it)                     *)
(*   config  self.db_path, self.collection_name and self.model_name        *)
(*   lastOp  the last call on the manager: its arguments, its outcome and  *)
(*           what it did to its collaborators; existed is exists as the    *)
(*           call found it, prev tells what the call before it was         *)
(*   call    an application of one of the pure functions to an input       *)
(***************************************************************************)
VARIABLES docs, exists, dirFilled, config, lastOp, call

vars == <<docs, exists, dirFilled, config, lastOp, call>>

NoFault == [kind |-> "none", batch |-> 0]

\* the arguments of __init__ (its defaults)
DefaultConfig ==
    [db_path |-> "./chroma_db", collection_name |-> "event_descriptions",
     model_name |-> "sentence-transformers/paraphrase-multilingual-MiniLM-L12-v2"]

NoStats == [total_events |-> 0, collection_name |-> "", model_name |-> "", db_path |-> ""]

Idle ==
    [op |-> "init", df |-> <<>>, batch_size |-> 0, fault |-> NoFault, repeat |-> FALSE,
     before |-> {}, raised |-> FALSE, ret |-> 0, encodeCalls |-> 0, encoded |-> 0,
     addCalls |-> 0, written |-> 0, query |-> 0, k |-> 0, filter |-> 0,
     storeQueries |-> 0, hits |-> <<>>, rows |-> <<>>,
     existed |-> TRUE, prev |-> "other", stats |-> NoStats,
     dirBefore |-> TRUE, ingested |-> FALSE, dates |-> <<0, 0>>]

NoCall == [fn |-> "none", arg |-> None, out |-> <<>>, done |-> FALSE]

\* what the call before the one being made was: a reset that returned True, an
\* add_events of the dataset ix that raised after committing rows, or another
Prev(ix) ==
    IF lastOp.op = "reset" /\ lastOp.ret = 1 THEN "reset_ok"
    ELSE IF lastOp.op = "add_events" /\ lastOp.raised /\ lastOp.written >= 1
            /\ lastOp.df = ix
    THEN "add_partial"
    ELSE "other"

Ids(ds) == {d.id : d \in ds}

Range(s) == {s[i] : i \in 1..Len(s)}

Injective(s) == \A i, j \in 1..Len(s) : s[i] = s[j] => i = j

Min(a, b) == IF a <= b THEN a ELSE b

(***************************************************************************)
(* collection.add of ChromaDB (PersistentClient, 0.4 and later): duplicate *)
(* ids inside one call are rejected; a record whose id is already in the   *)
(* collection is ignored and the stored record is kept.                    *)
(***************************************************************************)
\* variant: an add that rejects a call naming an id already in the collection
collection_add_rejecting(ds, ids, embeddings, documents, metadatas) ==
    IF Cardinality(Range(ids)) # Len(ids) \/ Range(ids) \cap Ids(ds) # {}
    THEN [raised |-> TRUE, docs |-> ds]
    ELSE [raised |-> FALSE,
          docs |-> ds \cup {[id |-> ids[i], document |-> documents[i],
                             metadata |-> metadatas[i], embedding |-> embeddings[i]] :
                            i \in 1..Len(ids)}]

\* variant: the records of the call replace the contents of the collection
collection_add_replacing(ds, ids, embeddings, documents, metadatas) ==
    IF Cardinality(Range(ids)) # Len(ids)
    THEN [raised |-> TRUE, docs |-> ds]
    ELSE [raised |-> FALSE,
          docs |-> {[id |-> ids[i], document |-> documents[i],
                     metadata |-> metadatas[i], embedding |-> embeddings[i]] :
                    i \in 1..Len(ids)}]

\* variant: a call naming an id already in the collection adds nothing
collection_add_all_or_nothing(ds, ids, embeddings, documents, metadatas) ==
    IF Cardinality(Range(ids)) # Len(ids)
    THEN [raised |-> TRUE, docs |-> ds]
    ELSE IF Range(ids) \cap Ids(ds) # {}
    THEN [raised |-> FALSE, docs |-> ds]
    ELSE [raised |-> FALSE,
          docs |-> ds \cup {[id |-> ids[i], document |-> documents[i],
                             metadata |-> metadatas[i], embedding |-> embeddings[i]] :
                            i \in 1..Len(ids)}]

collection_add(ds, ids, embeddings, documents, metadatas) ==
    IF Cardinality(Range(ids)) # Len(ids)
    THEN [raised |-> TRUE, docs |-> ds]
    ELSE [raised |-> FALSE,
          docs |-> ds \cup {[id |-> ids[i], document |-> documents[i],
                             metadata |-> metadatas[i], embedding |-> embeddings[i]] :
                            i \in {j \in 1..Len(ids) : ids[j] \notin Ids(ds)}}]

(***************************************************************************)
(* add_events                                                              *)
(***************************************************************************)
\* self._prepare_event_text(row), tabulated once over the catalogue
ComposedText == {<<r, prepare_event_text(r)>> : r \in Range(Catalogue)}

TextOf(row) == (CHOOSE p \in ComposedText : p[1] = row)[2]

\* variant: the emptiness test is on the value not being None
HasText_always(row) == TRUE

HasText(row) == TextOf(row) # <<>>

\* variant: a last batch shorter than batch_size is left out
Batch_full_only(df, batch_size, b) ==
    IF b * batch_size <= Len(df)
    THEN SubSeq(df, (b - 1) * batch_size + 1, b * batch_size)
    ELSE <<>>

\* df.iloc[i:i + batch_size] of the b-th round of the loop
Batch(df, batch_size, b) ==
    SubSeq(df, (b - 1) * batch_size + 1, Min(b * batch_size, Len(df)))

\* the rows of a batch that are not skipped (if not text: continue)
\* variant: no row is skipped
kept_rows_all(batch) == batch

kept_rows(batch) == SelectSeq(batch, HasText)

\* variant: a batch whose embedding or storing fails is skipped and the loop
\* goes on
add_kept_skipping(acc, kept, fault, b) ==
    IF kept = <<>> \/ (fault.kind # "none" /\ fault.batch = b) THEN acc
    ELSE IF ~acc.exists
    THEN [acc EXCEPT !.raised = TRUE, !.encodeCalls = @ + 1, !.encoded = @ + Len(kept),
                     !.addCalls = @ + 1]
    ELSE CHOOSE out \in
           {IF res.raised
            THEN [acc EXCEPT !.raised = TRUE, !.encodeCalls = @ + 1,
                             !.encoded = @ + Len(kept), !.addCalls = @ + 1]
            ELSE [acc EXCEPT !.docs = res.docs, !.encodeCalls = @ + 1,
                             !.encoded = @ + Len(kept), !.addCalls = @ + 1,
                             !.written = @ + Len(kept),
                             !.added_count = @ + Len(kept)] :
            res \in {collection_add(acc.docs,
                                    [i \in 1..Len(kept) |-> RowId(kept[i])],
                                    encode([i \in 1..Len(kept) |-> TextOf(kept[i])]),
                                    [i \in 1..Len(kept) |-> TextOf(kept[i])],
                                    [i \in 1..Len(kept) |-> RowMetadata(kept[i])])}} : TRUE

\* embedding and storing the kept rows of the b-th batch; acc is the call's
\* progress so far.  (CHOOSE out \in {e(x) : x \in {v}} : TRUE is e(v) with v
\* evaluated once.)
add_kept(acc, kept, fault, b) ==
    IF kept = <<>> THEN acc
    ELSE IF fault.kind = "encode" /\ fault.batch = b
    THEN [acc EXCEPT !.raised = TRUE, !.encodeCalls = @ + 1]
    ELSE IF ~acc.exists \/ (fault.kind = "add" /\ fault.batch = b)
    THEN [acc EXCEPT !.raised = TRUE, !.encodeCalls = @ + 1, !.encoded = @ + Len(kept),
                     !.addCalls = @ + 1]
    ELSE CHOOSE out \in
           {IF res.raised
            THEN [acc EXCEPT !.raised = TRUE, !.encodeCalls = @ + 1,
                             !.encoded = @ + Len(kept), !.addCalls = @ + 1]
            ELSE [acc EXCEPT !.docs = res.docs, !.encodeCalls = @ + 1,
                             !.encoded = @ + Len(kept), !.addCalls = @ + 1,
                             !.written = @ + Len(kept),
                             !.added_count = @ + Len(kept)] :
            res \in {collection_add(acc.docs,
                                    [i \in 1..Len(kept) |-> RowId(kept[i])],
                                    encode([i \in 1..Len(kept) |-> TextOf(kept[i])]),
                                    [i \in 1..Len(kept) |-> TextOf(kept[i])],
                                    [i \in 1..Len(kept) |-> RowMetadata(kept[i])])}} : TRUE

\* one round of the loop over the batches
add_batch(acc, batch, fault, b) ==
    CHOOSE out \in {add_kept(acc, kept, fault, b) : kept \in {kept_rows(batch)}} : TRUE

RECURSIVE add_batches(_, _, _, _, _)
add_batches(acc, df, batch_size, fault, b) ==
    IF acc.raised \/ (b - 1) * batch_size >= Len(df) THEN acc
    ELSE CHOOSE out \in
           {add_batches(next, df, batch_size, fault, b + 1) :
            next \in {add_batch(acc, Batch(df, batch_size, b), fault, b)}} : TRUE

\* variant: no early return, and the whole frame is embedded before the loop
add_events_eager(ds, ex, df, batch_size, fault) ==
    CHOOSE out \in
      {add_batches(start, df, batch_size, fault, 1) :
       start \in {[docs |-> ds, exists |-> ex, raised |-> FALSE, added_count |-> 0,
                   encodeCalls |-> 1, encoded |-> 0, addCalls |-> 0, written |-> 0]}} : TRUE

\* the outcome of add_events(df, batch_size) on the collection ds
add_events(ds, ex, df, batch_size, fault) ==
    IF Len(df) = 0
    THEN [docs |-> ds, exists |-> ex, raised |-> FALSE, added_count |-> 0,
          encodeCalls |-> 0, encoded |-> 0, addCalls |-> 0, written |-> 0]
    ELSE CHOOSE out \in
           {add_batches(start, df, batch_size, fault, 1) :
            start \in {[docs |-> ds, exists |-> ex, raised |-> FALSE, added_count |-> 0,
                        encodeCalls |-> 0, encoded |-> 0, addCalls |-> 0,
                        written |-> 0]}} : TRUE

NumBatches(n, batch_size) == (n + batch_size - 1) \div batch_size

RowsOf(ix) == [i \in 1..Len(ix) |-> Catalogue[ix[i]]]

\* the datasets tried: up to MaxRows distinct rows of the catalogue in any order,
\* as their indices (rows 1 and 4 carry the same event ID)
Datasets == {ix \in UNION {[1..n -> DOMAIN Catalogue] : n \in 0..MaxRows} : Injective(ix)}

\* a batch's embedding or store write fails (model or store unavailable)
Faults(n, batch_size) ==
    {NoFault} \cup {[kind |-> kd, batch |-> b] :
                    kd \in {"encode", "add"}, b \in 1..NumBatches(n, batch_size)}

AddEvents ==
    \E ix \in Datasets, batch_size \in BatchSizes :
        \E fault \in Faults(Len(ix), batch_size), df \in {RowsOf(ix)} :
            \E r \in {add_events(docs, exists, df, batch_size, fault)} :
                /\ docs' = r.docs
                /\ lastOp' = [Idle EXCEPT !.op = "add_events", !.df = ix,
                                !.batch_size = batch_size, !.fault = fault,
                                !.repeat = /\ lastOp.op = "add_events"
                                           /\ lastOp.df = ix
                                           /\ ~lastOp.raised,
                                !.before = docs, !.existed = exists,
                                !.prev = Prev(ix), !.raised = r.raised,
                                !.ret = IF r.raised THEN 0 ELSE r.added_count,
                                !.encodeCalls = r.encodeCalls, !.encoded = r.encoded,
                                !.addCalls = r.addCalls, !.written = r.written]
                /\ UNCHANGED <<exists, dirFilled, config, call>>

(***************************************************************************)
(* search_similar_events                                                   *)
(***************************************************************************)
\* not query or not query.strip()
\* variant: the query is not stripped before the emptiness test
QueryBlank_unstripped(query) == ~Truthy(query)

QueryBlank(query) == ~Truthy(query) \/ Strip(PyStr(query)) = <<>>

\* the where clause built from filter_metadata: None, or key -> {"$eq": str(value)}
\* for the truthy values
where_clause(filter) ==
    IF ~filter.given \/ filter.items = <<>>
    THEN [isNone |-> TRUE, conds |-> <<>>]
    ELSE LET kept == SelectSeq(filter.items, LAMBDA kv : Truthy(kv[2]))
         IN  [isNone |-> FALSE,
              conds |-> [i \in 1..Len(kept) |-> <<kept[i][1], Str(PyStr(kept[i][2]))>>]]

\* variant: a condition holds when the stored value contains the wanted one
Matches_substring(d, where) ==
    \A i \in 1..Len(where.conds) :
        LET have == d.metadata[where.conds[i][1]].s
            want == where.conds[i][2].s
        IN  \E j \in 0..(Len(have) - Len(want)) : SubSeq(have, j + 1, j + Len(want)) = want

\* the documents a where clause of {"$eq": value} conditions selects
Matches(d, where) ==
    \A i \in 1..Len(where.conds) : d.metadata[where.conds[i][1]] = where.conds[i][2]

Hit(d, qvec) ==
    [id |-> d.id, document |-> d.document, metadata |-> d.metadata,
     distance |-> Distance(d.embedding, qvec)]

(***************************************************************************)
(* collection.query of ChromaDB: the n_results nearest matching documents, *)
(* nearest first, fewer when fewer match; the order of documents at equal  *)
(* distance is the store's.  A where clause that is a dict without exactly *)
(* one key is rejected by the builds that validate it (strict) and read as *)
(* the conjunction of its keys by the others.                              *)
(***************************************************************************)
collection_query(ds, qvec, n_results, where, strict) ==
    IF ~where.isNone /\ Len(where.conds) # 1 /\ strict
    THEN {[raised |-> TRUE, hits |-> <<>>]}
    ELSE LET matching == {Hit(d, qvec) : d \in {e \in ds : Matches(e, where)}}
             n == Min(n_results, Cardinality(matching))
         IN  {[raised |-> FALSE, hits |-> s] :
              s \in {t \in [1..n -> matching] :
                       /\ Injective(t)
                       /\ \A i \in 1..(n - 1) : t[i].distance <= t[i + 1].distance
                       /\ \A h \in matching \ Range(t) :
                            \A i \in 1..n : t[i].distance <= h.distance}}

\* variant: n_results is not forwarded and the store's default of 10 applies
DefaultNResults == 10

search_similar_events_default_n(ds, ex, query, n_results, filter, strict) ==
    IF QueryBlank(query)
    THEN {[raised |-> FALSE, encodeCalls |-> 0, storeQueries |-> 0, hits |-> <<>>]}
    ELSE IF ~ex
    THEN {[raised |-> TRUE, encodeCalls |-> 1, storeQueries |-> 1, hits |-> <<>>]}
    ELSE {[raised |-> r.raised, encodeCalls |-> 1, storeQueries |-> 1, hits |-> r.hits] :
          r \in collection_query(ds, encode(<<clean_text(query)>>)[1], DefaultNResults,
                                 where_clause(filter), strict)}

\* the possible outcomes of search_similar_events(query, n_results, filter_metadata)
search_similar_events(ds, ex, query, n_results, filter, strict) ==
    IF QueryBlank(query)
    THEN {[raised |-> FALSE, encodeCalls |-> 0, storeQueries |-> 0, hits |-> <<>>]}
    ELSE LET clean_query == clean_text(query)
             query_embedding == encode(<<clean_query>>)
             where == where_clause(filter)
         IN  IF ~ex
             THEN {[raised |-> TRUE, encodeCalls |-> 1, storeQueries |-> 1, hits |-> <<>>]}
             ELSE {[raised |-> r.raised, encodeCalls |-> 1, storeQueries |-> 1,
                    hits |-> r.hits] :
                   r \in collection_query(ds, query_embedding[1], n_results, where, strict)}

SearchSimilarEvents ==
    \E q \in DOMAIN Queries, k \in 1..MaxK, f \in DOMAIN Filters :
        \E r \in UNION {search_similar_events(docs, exists, Queries[q], k, Filters[f], strict) :
                        strict \in BOOLEAN} :
            /\ lastOp' = [Idle EXCEPT !.op = "search", !.query = q, !.k = k, !.filter = f,
                            !.before = docs, !.existed = exists, !.prev = Prev(<<>>),
                            !.raised = r.raised,
                            !.encodeCalls = r.encodeCalls,
                            !.storeQueries = r.storeQueries, !.hits = r.hits]
            /\ UNCHANGED <<docs, exists, dirFilled, config, call>>

(***************************************************************************)
(* export_similar_events_df                                                *)
(***************************************************************************)
PreviewLen == 200
Ellipsis == <<".", ".", ".">>

\* variant: a text of exactly 200 characters is cut as well
description_preview_at_limit(doc) ==
    IF Len(doc) >= PreviewLen THEN SubSeq(doc, 1, PreviewLen) \o Ellipsis ELSE doc

\* doc[:200] + "..." if len(doc) > 200 else doc
description_preview(doc) ==
    IF Len(doc) > PreviewLen THEN SubSeq(doc, 1, PreviewLen) \o Ellipsis ELSE doc

\* variant: the score is clamped at 0
similarity_score_clamped(distance) == IF One - distance < 0 THEN 0 ELSE One - distance

\* 1 - distance
similarity_score(distance) == One - distance

\* variant: ranks count from 0
result_row_zero_based(i, hit) ==
    [rank |-> i - 1,
     event_id |-> hit.id,
     title |-> hit.metadata.title,
     similarity_score |-> similarity_score(hit.distance),
     distance |-> hit.distance,
     description_preview |-> description_preview(hit.document),
     date |-> hit.metadata.date,
     time |-> hit.metadata.time,
     district |-> hit.metadata.district,
     venue |-> hit.metadata.venue,
     type |-> hit.metadata.type,
     free |-> hit.metadata.free]

\* the row of the result frame built from the i-th hit
result_row(i, hit) ==
    [rank |-> i,
     event_id |-> hit.id,
     title |-> hit.metadata.title,
     similarity_score |-> similarity_score(hit.distance),
     distance |-> hit.distance,
     description_preview |-> description_preview(hit.document),
     date |-> hit.metadata.date,
     time |-> hit.metadata.time,
     district |-> hit.metadata.district,
     venue |-> hit.metadata.venue,
     type |-> hit.metadata.type,
     free |-> hit.metadata.free]

\* the possible outcomes of export_similar_events_df(query, n_results)
export_similar_events_df(ds, ex, query, n_results) ==
    {[raised |-> r.raised, encodeCalls |-> r.encodeCalls, storeQueries |-> r.storeQueries,
      hits |-> r.hits,
      rows |-> IF r.raised THEN <<>>
               ELSE [i \in 1..Len(r.hits) |-> result_row(i, r.hits[i])]] :
     r \in search_similar_events(ds, ex, query, n_results, NoFilter, FALSE)}

ExportSimilarEventsDf ==
    \E q \in DOMAIN Queries, k \in 1..MaxK :
        \E r \in export_similar_events_df(docs, exists, Queries[q], k) :
            /\ lastOp' = [Idle EXCEPT !.op = "export", !.query = q, !.k = k, !.filter = 1,
                            !.before = docs, !.existed = exists, !.prev = Prev(<<>>),
                            !.raised = r.raised,
                            !.encodeCalls = r.encodeCalls,
                            !.storeQueries = r.storeQueries, !.hits = r.hits,
                            !.rows = r.rows]
            /\ UNCHANGED <<docs, exists, dirFilled, config, call>>

(***************************************************************************)
(* get_collection_stats, reset_database and construction                   *)
(***************************************************************************)
\* variant: the count is cached at construction, when the collection was empty
get_collection_stats_cached(ds, ex, cfg) ==
    IF ~ex THEN [raised |-> TRUE, stats |-> NoStats]
    ELSE [raised |-> FALSE,
          stats |-> [total_events |-> 0,
                     collection_name |-> cfg.collection_name,
                     model_name |-> cfg.model_name,
                     db_path |-> cfg.db_path]]

\* get_collection_stats; collection.count() fails on a collection that no
\* longer exists
get_collection_stats(ds, ex, cfg) ==
    IF ~ex THEN [raised |-> TRUE, stats |-> NoStats]
    ELSE [raised |-> FALSE,
          stats |-> [total_events |-> Cardinality(ds),
                     collection_name |-> cfg.collection_name,
                     model_name |-> cfg.model_name,
                     db_path |-> cfg.db_path]]

GetCollectionStats ==
    \E r \in {get_collection_stats(docs, exists, config)} :
        /\ lastOp' = [Idle EXCEPT !.op = "stats", !.before = docs, !.existed = exists,
                        !.prev = Prev(<<>>), !.raised = r.raised,
                        !.ret = r.stats.total_events, !.stats = r.stats]
        /\ UNCHANGED <<docs, exists, dirFilled, config, call>>

\* variant: the collection is not deleted, only fetched again
reset_database_in_place(ds, ex, fault) ==
    LET created == ex /\ fault = "none"
    IN  [docs |-> ds, exists |-> ex, raised |-> FALSE, ret |-> IF created THEN 1 ELSE 0]

\* variant: no try/except, a failing step raises
reset_database_raising(ds, ex, fault) ==
    LET deleted == ex /\ fault # "delete"
        created == deleted /\ fault # "create"
    IN  [docs |-> IF deleted THEN {} ELSE ds,
         exists |-> IF deleted THEN created ELSE ex,
         raised |-> ~created,
         ret |-> IF created THEN 1 ELSE 0]

\* reset_database: ret is 1 for True and 0 for False.  delete_collection fails
\* when the collection is gone (or the store does); create_collection may fail
\* after the delete went through.  The except clause turns either failure
\* into the return value False.
reset_database(ds, ex, fault) ==
    LET deleted == ex /\ fault # "delete"
        created == deleted /\ fault # "create"
    IN  [docs |-> IF deleted THEN {} ELSE ds,
         exists |-> IF deleted THEN created ELSE ex,
         raised |-> FALSE,
         ret |-> IF created THEN 1 ELSE 0]

ResetDatabase ==
    \E fault \in {"none", "delete", "create"} :
        \E r \in {reset_database(docs, exists, fault)} :
            /\ docs' = r.docs
            /\ exists' = r.exists
            /\ lastOp' = [Idle EXCEPT !.op = "reset", !.before = docs,
                            !.existed = exists, !.prev = Prev(<<>>),
                            !.fault = [kind |-> fault, batch |-> 0],
                            !.raised = r.raised, !.ret = r.ret]
            /\ UNCHANGED <<dirFilled, config, call>>

\* variant: the collection is always created anew
init_collection_recreating(ds, ex) == [docs |-> {}, exists |-> TRUE, raised |-> FALSE]

\* _init_collection: get the collection, or create it (empty) when
\* get_collection raises because it is absent
init_collection(ds, ex) ==
    IF ex THEN [docs |-> ds, exists |-> TRUE, raised |-> FALSE]
    ELSE [docs |-> {}, exists |-> TRUE, raised |-> FALSE]

\* a new manager on the same persistence path and collection name
Construct ==
    \E r \in {init_collection(docs, exists)} :
        /\ docs' = r.docs
        /\ exists' = r.exists
        /\ dirFilled' = TRUE
        /\ config' = DefaultConfig
        /\ lastOp' = [Idle EXCEPT !.op = "construct", !.before = docs,
                        !.existed = exists, !.prev = Prev(<<>>), !.raised = r.raised]
        /\ UNCHANGED call

Init ==
    /\ docs = {}
    /\ exists = TRUE
    /\ dirFilled = TRUE
    /\ config = DefaultConfig
    /\ lastOp = Idle
    /\ call = NoCall

Next ==
    \/ AddEvents
    \/ SearchSimilarEvents
    \/ ExportSimilarEventsDf
    \/ GetCollectionStats
    \/ ResetDatabase
    \/ Construct

Spec == Init /\ [][Next]_vars

(***************************************************************************)
(* The pure functions applied to drawn inputs: _clean_text to a cell value *)
(* and the row projection of export_similar_events_df to a hit whose       *)
(* document has a drawn length.                                            *)
(***************************************************************************)
\* a document of n characters, each telling its position (shifted by c)
DocOf(n, c) == [i \in 1..n |-> Digit((i + c) % 10)]

DocInputs == {Str(DocOf(n, c)) : n \in 0..MaxDocLen, c \in {0, 1}}

TextAlphabet == {"a", " ", "<", ">", "/"}

CleanInputs ==
    {NaN, None}
        \cup {Num(n) : n \in 0..MaxNum}
        \cup {Str(t) : t \in UNION {[1..n -> TextAlphabet] : n \in 0..MaxTextLen}}

\* the values tried in each of the four text fields of a row: missing, empty,
\* plain, a path, and two whose tags leave whitespace behind
FieldValues ==
    {NaN, Str(<<>>), Str(<<"a">>), Str(<<"b", "/", "c">>),
     Str(<<"<", "a", ">", " ", "<", "a", ">">>), Str(<<"<", "a", ">", " ", "b">>)}

RowInputs ==
    {[BlankRow EXCEPT !.ID = Num(1), !.TITULO = t, !.DESCRIPCION = d, !.TIPO = c,
                      !.DISTRITO = z] : t \in FieldValues, d \in FieldValues,
                                        c \in FieldValues, z \in FieldValues}

PureInit ==
    /\ docs = {}
    /\ exists = TRUE
    /\ dirFilled = TRUE
    /\ config = DefaultConfig
    /\ lastOp = Idle
    /\ call \in {[NoCall EXCEPT !.fn = "clean_text", !.arg = v] : v \in CleanInputs}
                \cup {[NoCall EXCEPT !.fn = "result_row", !.arg = v] : v \in DocInputs}
                \cup {[NoCall EXCEPT !.fn = "prepare_event_text", !.arg = v] :
                      v \in RowInputs}

ApplyCleanText ==
    /\ call.fn = "clean_text" /\ ~call.done
    /\ call' = [call EXCEPT !.out = clean_text(call.arg), !.done = TRUE]
    /\ UNCHANGED <<docs, exists, dirFilled, config, lastOp>>

\* the row built from a hit on event A whose stored text is the drawn document
ApplyResultRow ==
    /\ call.fn = "result_row" /\ ~call.done
    /\ \E hit \in {[id |-> RowId(Catalogue[1]), document |-> call.arg.s,
                     metadata |-> RowMetadata(Catalogue[1]), distance |-> 0]} :
           call' = [call EXCEPT !.out = result_row(1, hit).description_preview,
                                !.done = TRUE]
    /\ UNCHANGED <<docs, exists, dirFilled, config, lastOp>>

ApplyPrepareEventText ==
    /\ call.fn = "prepare_event_text" /\ ~call.done
    /\ call' = [call EXCEPT !.out = prepare_event_text(call.arg), !.done = TRUE]
    /\ UNCHANGED <<docs, exists, dirFilled, config, lastOp>>

PureNext ==
    \/ ApplyCleanText
    \/ ApplyResultRow
    \/ ApplyPrepareEventText

PureSpec == PureInit /\ [][PureNext]_vars

(***************************************************************************)
(* The bootstrap of the application (initialize_embedding_manager of       *)
(* src/app.py and src/pages/search.py, create_embedding_database), run at  *)
(* a start of the application on whatever earlier runs left on disk.       *)
(***************************************************************************)
\* the default batch_size of add_events
DefaultBatchSize == 100

\* create_embedding_database(df, db_path): a manager, then add_events(df)
create_embedding_database(ds, ex, df, fault) ==
    CHOOSE out \in {add_events(m.docs, m.exists, df, DefaultBatchSize, fault) :
                    m \in {init_collection(ds, ex)}} : TRUE

\* variant: the dataset is ingested whenever it is not empty
initialize_embedding_manager_always_ingesting(ds, ex, filled, df, fault) ==
    IF Len(df) > 0
    THEN CHOOSE out \in
           {[docs |-> r.docs, exists |-> r.exists, dirFilled |-> TRUE,
             raised |-> r.raised, manager |-> ~r.raised, ingested |-> TRUE,
             encodeCalls |-> r.encodeCalls, addCalls |-> r.addCalls,
             written |-> r.written] :
            r \in {create_embedding_database(ds, ex, df, fault)}} : TRUE
    ELSE IF filled
    THEN CHOOSE out \in
           {[docs |-> m.docs, exists |-> m.exists, dirFilled |-> TRUE,
             raised |-> FALSE, manager |-> TRUE, ingested |-> FALSE,
             encodeCalls |-> 0, addCalls |-> 0, written |-> 0] :
            m \in {init_collection(ds, ex)}} : TRUE
    ELSE [docs |-> ds, exists |-> ex, dirFilled |-> filled, raised |-> FALSE,
          manager |-> FALSE, ingested |-> FALSE, encodeCalls |-> 0, addCalls |-> 0,
          written |-> 0]

\* initialize_embedding_manager(df); manager is FALSE when None is returned
initialize_embedding_manager(ds, ex, filled, df, fault) ==
    IF filled
    THEN CHOOSE out \in
           {[docs |-> m.docs, exists |-> m.exists, dirFilled |-> TRUE,
             raised |-> FALSE, manager |-> TRUE, ingested |-> FALSE,
             encodeCalls |-> 0, addCalls |-> 0, written |-> 0] :
            m \in {init_collection(ds, ex)}} : TRUE
    ELSE IF Len(df) > 0
    THEN CHOOSE out \in
           {[docs |-> r.docs, exists |-> r.exists, dirFilled |-> TRUE,
             raised |-> r.raised, manager |-> ~r.raised, ingested |-> TRUE,
             encodeCalls |-> r.encodeCalls, addCalls |-> r.addCalls,
             written |-> r.written] :
            r \in {create_embedding_database(ds, ex, df, fault)}} : TRUE
    ELSE [docs |-> ds, exists |-> ex, dirFilled |-> filled, raised |-> FALSE,
          manager |-> FALSE, ingested |-> FALSE, encodeCalls |-> 0, addCalls |-> 0,
          written |-> 0]

\* what earlier runs can have left: no directory, a directory without the
\* collection, or the collection after a complete or a partial ingestion
BootStores ==
    {[docs |-> {}, exists |-> FALSE, filled |-> f] : f \in BOOLEAN}
        \cup {[docs |-> d, exists |-> TRUE, filled |-> TRUE] :
              d \in UNION {{add_events({}, TRUE, RowsOf(ix), bs, fault).docs :
                              fault \in Faults(Len(ix), bs)} :
                            ix \in Datasets, bs \in BatchSizes}}

BootInit ==
    /\ \E st \in BootStores :
          /\ docs = st.docs
          /\ exists = st.exists
          /\ dirFilled = st.filled
    /\ config = DefaultConfig
    /\ lastOp = Idle
    /\ call = NoCall

InitializeEmbeddingManager ==
    \E ix \in Datasets :
        \E fault \in Faults(Len(ix), DefaultBatchSize), df \in {RowsOf(ix)} :
            \E r \in {initialize_embedding_manager(docs, exists, dirFilled, df, fault)} :
                /\ docs' = r.docs
                /\ exists' = r.exists
                /\ dirFilled' = r.dirFilled
                /\ lastOp' = [Idle EXCEPT !.op = "bootstrap", !.df = ix,
                                !.batch_size = DefaultBatchSize, !.fault = fault,
                                !.before = docs, !.existed = exists,
                                !.dirBefore = dirFilled, !.ingested = r.ingested,
                                !.raised = r.raised,
                                !.ret = IF r.manager THEN 1 ELSE 0,
                                !.encodeCalls = r.encodeCalls, !.addCalls = r.addCalls,
                                !.written = r.written]
                /\ UNCHANGED <<config, call>>

BootNext == InitializeEmbeddingManager

BootSpec == BootInit /\ [][BootNext]_vars

(***************************************************************************)
(* The search page (show_search_page of src/pages/search.py with           *)
(* apply_filters_to_results and apply_date_filter of src/utils.py): the    *)
(* manager's result frame, post-filtered, date-filtered and re-ranked.  A  *)
(* frame is its rows and whether it has columns: pd.DataFrame() has none.  *)
(* A date is the number its digits write, NaT (-1) when it has no such     *)
(* reading.                                                                *)
(***************************************************************************)
\* the number a text of decimal digits writes, -1 when it is not such a text
RECURSIVE DecimalValue(_)
DecimalValue(s) ==
    IF s = <<>> THEN -1
    ELSE LET last == CHOOSE d \in -1..9 :
                       IF \E e \in 0..9 : Digit(e) = s[Len(s)]
                       THEN d >= 0 /\ Digit(d) = s[Len(s)]
                       ELSE d = -1
             init == IF Len(s) = 1 THEN 0 ELSE DecimalValue(SubSeq(s, 1, Len(s) - 1))
         IN  IF last = -1 \/ init = -1 THEN -1 ELSE 10 * init + last

\* str.lower() on the letters of the model
LowerChar(ch) ==
    CASE ch = "A" -> "a" [] ch = "B" -> "b" [] ch = "C" -> "c" [] ch = "D" -> "d"
      [] ch = "V" -> "v" [] OTHER -> ch

Lower(t) == [i \in 1..Len(t) |-> LowerChar(t[i])]

\* Series.str.contains(value, case=False, na=False) for one cell
ContainsNoCase(cell, value) ==
    /\ cell.kind = "str"
    /\ \E j \in 0..(Len(cell.s) - Len(value)) :
          Lower(SubSeq(cell.s, j + 1, j + Len(value))) = Lower(value)

\* the filters of the sidebar tried: none, a district, free events, a venue
\* and free events together
PageFilters ==
    << <<>>,
       << <<"district", <<"C">> >> >>,
       << <<"free", <<"1">> >> >>,
       << <<"venue", <<"v">> >>, <<"free", <<"0">> >> >> >>

\* the date ranges of the sidebar tried (since, to)
DateRanges == {<<0, 2>>, <<2, 3>>}

RowPasses(row, kv) ==
    CASE kv[1] = "district" -> ContainsNoCase(row.district, kv[2])
      [] kv[1] = "type" -> ContainsNoCase(row.type, kv[2])
      [] kv[1] = "venue" -> ContainsNoCase(row.venue, kv[2])
      [] kv[1] = "free" -> row.free = Str(kv[2])
      [] OTHER -> TRUE

\* apply_filters_to_results(results_df, filters)
apply_filters_to_results(frame, filters) ==
    IF filters # <<>> /\ frame.rows # <<>>
    THEN [frame EXCEPT !.rows = SelectSeq(@, LAMBDA row :
                                   \A i \in 1..Len(filters) : RowPasses(row, filters[i]))]
    ELSE frame

\* pd.to_datetime(value, errors='coerce')
to_datetime(cell) == IF cell.kind = "str" THEN DecimalValue(cell.s) ELSE -1

\* apply_date_filter(results_df, date_since, date_to): results_df['date'] is a
\* KeyError on a frame without columns
apply_date_filter(frame, date_since, date_to) ==
    IF ~frame.columns THEN [raised |-> TRUE, frame |-> frame]
    ELSE [raised |-> FALSE,
          frame |-> [frame EXCEPT !.rows = SelectSeq(@, LAMBDA row :
                                     /\ to_datetime(row.date) # -1
                                     /\ to_datetime(row.date) >= date_since
                                     /\ to_datetime(row.date) <= date_to)]]

\* the search execution of show_search_page for a truthy query: the possible
\* outcomes, with the manager's hits and the rows displayed
show_search_page(ds, ex, query, n_results, filters, date_since, date_to) ==
    {IF r.raised THEN [raised |-> TRUE, hits |-> r.hits, rows |-> <<>>]
     ELSE LET results_df == [columns |-> r.rows # <<>>, rows |-> r.rows]
              filtered == IF filters # <<>> /\ results_df.rows # <<>>
                          THEN apply_filters_to_results(results_df, filters)
                          ELSE results_df
              dated == apply_date_filter(filtered, date_since, date_to)
          IN  IF dated.raised THEN [raised |-> TRUE, hits |-> r.hits, rows |-> <<>>]
              ELSE [raised |-> FALSE, hits |-> r.hits,
                    rows |-> [i \in 1..Len(dated.frame.rows) |->
                                [dated.frame.rows[i] EXCEPT !.rank = i]]] :
     r \in export_similar_events_df(ds, ex, query, n_results)}

\* the queries for which the page searches (if query:)
PageQueries == {q \in DOMAIN Queries : Truthy(Queries[q])}

PageInit ==
    /\ docs \in {st.docs : st \in {b \in BootStores : b.exists}}
    /\ exists = TRUE
    /\ dirFilled = TRUE
    /\ config = DefaultConfig
    /\ lastOp = Idle
    /\ call = NoCall

ShowSearchPage ==
    \E q \in PageQueries, k \in 1..MaxK, f \in DOMAIN PageFilters, range \in DateRanges :
        \E r \in show_search_page(docs, exists, Queries[q], k, PageFilters[f],
                                  range[1], range[2]) :
            /\ lastOp' = [Idle EXCEPT !.op = "page", !.query = q, !.k = k, !.filter = f,
                            !.dates = range, !.before = docs, !.existed = exists,
                            !.raised = r.raised, !.hits = r.hits, !.rows = r.rows]
            /\ UNCHANGED <<docs, exists, dirFilled, config, call>>

PageNext == ShowSearchPage

PageSpec == PageInit /\ [][PageNext]_vars

(***************************************************************************)
(* Vocabulary of the properties.                                           *)
(***************************************************************************)
IsAdd == lastOp.op = "add_events"
IsSearch == lastOp.op \in {"search", "export"}
Returned == ~lastOp.raised

\* the dataset of the last add_events call
LastDf == RowsOf(lastOp.df)

UniqueIds(df) == \A i, j \in 1..Len(df) : RowId(df[i]) = RowId(df[j]) => i = j

\* a row all of whose four text fields are missing, empty or only whitespace
FieldBlank(v) == v.kind \in {"nan", "none"} \/ (v.kind = "str" /\ Range(v.s) \subseteq Whitespace)
RowBlank(row) ==
    /\ FieldBlank(row.TITULO)
    /\ FieldBlank(row.DESCRIPCION)
    /\ FieldBlank(row.TIPO)
    /\ FieldBlank(row.DISTRITO)

NonBlankRows(df) == {i \in 1..Len(df) : ~RowBlank(df[i])}

\* the rows of df whose composed text is not empty
ComposedRows(df) == {i \in 1..Len(df) : prepare_event_text(df[i]) # <<>>}

\* the query of the last search is None, empty or only whitespace
LastQueryBlank == lastOp.query \in DOMAIN Queries /\ FieldBlank(Queries[lastOp.query])

StoredFor(id) == {d \in docs : d.id = id}

(***************************************************************************)
(* C1: calling add_events(D) a second time right after a call of           *)
(* add_events(D) that returned, D having unique event IDs and nothing      *)
(* failing underneath, does not raise and leaves the store with the same   *)
(* document count, one document per ID.                                    *)
(***************************************************************************)
C1_IdempotentIngestion ==
    (IsAdd /\ lastOp.repeat /\ lastOp.fault = NoFault /\ UniqueIds(LastDf))
        => /\ Returned
           /\ Cardinality(docs) = Cardinality(lastOp.before)
           /\ \A id \in Ids(docs) : Cardinality(StoredFor(id)) = 1

C1_Witness ==
    /\ IsAdd /\ lastOp.repeat /\ lastOp.fault = NoFault /\ UniqueIds(LastDf)
    /\ Len(lastOp.df) = 2
    /\ lastOp.addCalls >= 1
    /\ Cardinality(docs) = 2

(***************************************************************************)
(* C2: after add_events(D) returns, D having unique event IDs, the stored  *)
(* document text and metadata of every non-blank row's ID are those of     *)
(* that row (an ID already in the store is overwritten).                   *)
(***************************************************************************)
C2_OverwriteOnReingestion ==
    (IsAdd /\ Returned /\ UniqueIds(LastDf))
        => \A i \in NonBlankRows(LastDf) :
             \E d \in docs : /\ d.id = RowId(LastDf[i])
                             /\ d.document = prepare_event_text(LastDf[i])
                             /\ d.metadata = RowMetadata(LastDf[i])

BlankIds == {RowId(r) : r \in {c \in Range(Catalogue) : RowBlank(c)}}

C4_BlankNeverStored ==
    /\ \A d \in docs : d.document # <<>> /\ d.id \notin BlankIds
    /\ (IsAdd /\ Returned) => /\ lastOp.encoded = Cardinality(NonBlankRows(LastDf))
                              /\ lastOp.ret = Cardinality(NonBlankRows(LastDf))
    /\ IsSearch => \A i \in 1..Len(lastOp.hits) : lastOp.hits[i].id \notin BlankIds

C4_Witness ==
    /\ IsAdd /\ Returned
    /\ \E i \in 1..Len(lastOp.df) : RowBlank(LastDf[i])
    /\ lastOp.written = 1
    /\ docs # lastOp.before

(***************************************************************************)
(* C5: add_events on an empty dataset returns 0 without raising, calls     *)
(* neither the embedding engine nor the store, and leaves the store as it  *)
(* was.                                                                    *)
(***************************************************************************)
C5_EmptyDatasetNoOp ==
    (IsAdd /\ lastOp.df = <<>>)
        => /\ Returned
           /\ lastOp.ret = 0
           /\ lastOp.encodeCalls = 0
           /\ lastOp.addCalls = 0
           /\ docs = lastOp.before

C5_Witness == IsAdd /\ lastOp.df = <<>> /\ docs # {}

(***************************************************************************)
(* C6: a search with a blank query (None, empty or only whitespace)        *)
(* returns an empty result without raising, without calling the embedding  *)
(* engine and without querying the store, whatever the store holds and     *)
(* even when its collection is gone.                                       *)
(***************************************************************************)
C6_BlankQueryEmpty ==
    (IsSearch /\ LastQueryBlank)
        => /\ Returned
           /\ lastOp.hits = <<>>
           /\ lastOp.rows = <<>>
           /\ lastOp.encodeCalls = 0
           /\ lastOp.storeQueries = 0
           /\ docs = lastOp.before

C6_Witness ==
    /\ lastOp.op = "export" /\ LastQueryBlank
    /\ Queries[lastOp.query].kind = "str" /\ Queries[lastOp.query].s # <<>>
    /\ docs # {}

(***************************************************************************)
(* C7: a search with a non-blank query that returns gives at most          *)
(* n_results results, and at most as many as there are stored documents.   *)
(***************************************************************************)
C7_AtMostK ==
    (IsSearch /\ ~LastQueryBlank /\ Returned)
        => /\ Len(lastOp.hits) <= lastOp.k
           /\ Len(lastOp.hits) <= Cardinality(docs)
           /\ lastOp.op = "export" => Len(lastOp.rows) = Len(lastOp.hits)

C7_Witness ==
    /\ lastOp.op = "export" /\ ~LastQueryBlank /\ Returned
    /\ Len(lastOp.rows) = lastOp.k
    /\ Cardinality(docs) > lastOp.k

(***************************************************************************)
(* C8: in every search result the distances are non-decreasing along the   *)
(* sequence and the ranks are 1, 2, ... in that order.                     *)
(***************************************************************************)
C8_RankingOrder ==
    IsSearch
        => /\ \A i \in 1..(Len(lastOp.hits) - 1) :
                lastOp.hits[i].distance <= lastOp.hits[i + 1].distance
           /\ \A i \in 1..(Len(lastOp.rows) - 1) :
                lastOp.rows[i].distance <= lastOp.rows[i + 1].distance
           /\ \A i \in 1..Len(lastOp.rows) :
                /\ lastOp.rows[i].rank = i
                /\ lastOp.rows[i].event_id = lastOp.hits[i].id

C8_Witness ==
    /\ lastOp.op = "export"
    /\ Len(lastOp.rows) = 2
    /\ lastOp.rows[1].distance < lastOp.rows[2].distance

(***************************************************************************)
(* C9: for every row of a search result, similarity_score is exactly 1     *)
(* minus the distance the store reported for that row, not clamped.        *)
(***************************************************************************)
C9_SimilarityIsOneMinusDistance ==
    lastOp.op = "export"
        => \A i \in 1..Len(lastOp.rows) :
             /\ lastOp.rows[i].distance = lastOp.hits[i].distance
             /\ lastOp.rows[i].similarity_score + lastOp.rows[i].distance = One

C9_Witness ==
    /\ lastOp.op = "export"
    /\ \E i \in 1..Len(lastOp.rows) : lastOp.rows[i].distance > One
    /\ \E i \in 1..Len(lastOp.rows) : lastOp.rows[i].distance = 0

(***************************************************************************)
(* C10: every row of a search result has similarity_score within [0, 1]    *)
(* and distance >= 0.                                                      *)
(***************************************************************************)
C10_SimilarityInUnitRange ==
    lastOp.op = "export"
        => \A i \in 1..Len(lastOp.rows) :
             /\ lastOp.rows[i].distance >= 0
             /\ lastOp.rows[i].similarity_score >= 0
             /\ lastOp.rows[i].similarity_score <= One

(***************************************************************************)
(* C11: the description_preview of a result row is the hit's document text *)
(* T itself when len(T) <= 200, and otherwise the first 200 characters of  *)
(* T followed by "...".                                                    *)
(***************************************************************************)
C11_PreviewTruncation ==
    (call.fn = "result_row" /\ call.done)
        => LET T == call.arg.s
           IN  /\ Len(T) <= 200 => call.out = T
               /\ Len(T) > 200 =>
                     /\ Len(call.out) = 203
                     /\ \A i \in 1..200 : call.out[i] = T[i]
                     /\ SubSeq(call.out, 201, 203) = <<".", ".", ".">>

C11_Witness ==
    /\ call.fn = "result_row" /\ call.done
    /\ Len(call.arg.s) = 201
    /\ Len(call.out) = 203

(***************************************************************************)
(* C20 as stated: _clean_text of an input that is not a string (NaN, None, *)
(* a number) is the empty string.                                          *)
(***************************************************************************)
C20_NonStringYieldsEmpty ==
    (call.fn = "clean_text" /\ call.done /\ call.arg.kind # "str")
        => call.out = <<>>

(***************************************************************************)
(* C20 amended: _clean_text of NaN, of None and of the number 0 is the     *)
(* empty string; _clean_text of another number is that number written in   *)
(* decimal, which is not empty.                                            *)
(***************************************************************************)
C20_MissingYieldsEmpty ==
    (call.fn = "clean_text" /\ call.done)
        => /\ call.arg.kind \in {"nan", "none"} => call.out = <<>>
           /\ (call.arg.kind = "num" /\ call.arg.n = 0) => call.out = <<>>
           /\ (call.arg.kind = "num" /\ call.arg.n # 0)
                 => call.out # <<>> /\ DecimalValue(call.out) = call.arg.n

C20_Witness ==
    /\ call.fn = "clean_text" /\ call.done
    /\ call.arg.kind = "num" /\ call.arg.n >= 10
    /\ Len(call.out) = 2

\* the (key, value) items of the last search's filter_metadata whose value is a
\* non-empty string
LastFilterItems ==
    IF lastOp.filter \in DOMAIN Filters
    THEN {kv \in Range(Filters[lastOp.filter].items) : kv[2].kind = "str" /\ kv[2].s # <<>>}
    ELSE {}

(***************************************************************************)
(* C12: when search_similar_events is given a filter with a non-empty      *)
(* value for a key and returns, every hit's metadata value for that key is *)
(* that value, character for character, and no stored document whose value *)
(* differs is among the hits.                                              *)
(***************************************************************************)
C12_MetadataEqualityFilter ==
    (lastOp.op = "search" /\ Returned)
        => \A kv \in LastFilterItems :
             /\ \A i \in 1..Len(lastOp.hits) :
                   /\ lastOp.hits[i].metadata[kv[1]].kind = "str"
                   /\ lastOp.hits[i].metadata[kv[1]].s = kv[2].s
             /\ \A d \in docs :
                   d.metadata[kv[1]].s # kv[2].s
                       => \A i \in 1..Len(lastOp.hits) : lastOp.hits[i].id # d.id

C12_Witness ==
    /\ lastOp.op = "search" /\ Returned
    /\ LastFilterItems # {}
    /\ lastOp.k = 2
    /\ Cardinality(docs) = 2
    /\ Len(lastOp.hits) = 1

(***************************************************************************)
(* C13: a reset_database that returns True leaves an empty collection; a   *)
(* get_collection_stats right after it returns total_events = 0, and an    *)
(* add_events(D) right after it has the outcome (documents stored, count   *)
(* returned or failure raised) it has on a newly created empty collection. *)
(***************************************************************************)
C13_ResetRoundTrip ==
    /\ (lastOp.op = "reset" /\ lastOp.ret = 1) => (docs = {} /\ exists)
    /\ (lastOp.op = "stats" /\ lastOp.prev = "reset_ok")
          => (Returned /\ lastOp.stats.total_events = 0)
    /\ (IsAdd /\ lastOp.prev = "reset_ok")
          => \E fresh \in {add_events({}, TRUE, LastDf, lastOp.batch_size, lastOp.fault)} :
                /\ docs = fresh.docs
                /\ lastOp.raised = fresh.raised
                /\ Returned => lastOp.ret = fresh.added_count
                /\ lastOp.written = fresh.written

C13_Witness ==
    /\ lastOp.op = "stats" /\ lastOp.prev = "reset_ok"
    /\ Returned
    /\ lastOp.stats.total_events = 0

\* the positions in df of the rows of batches 1..b
RowsUpTo(df, batch_size, b) == 1..Min(b * batch_size, Len(df))

(***************************************************************************)
(* C14: when the embedding or the storing of batch j of add_events(D)      *)
(* fails (D with unique IDs, batch j with a row to embed, the collection   *)
(* in place), the call raises, every non-blank row of batches 1..j-1 is    *)
(* stored, nothing of batch j or of a later batch is embedded after the    *)
(* failure or stored, and what was stored before the call is still there.  *)
(***************************************************************************)
C14_PartialIngestion ==
    LET j == lastOp.fault.batch
        earlier == ComposedRows(LastDf) \cap RowsUpTo(LastDf, lastOp.batch_size, j - 1)
        upToJ == ComposedRows(LastDf) \cap RowsUpTo(LastDf, lastOp.batch_size, j)
    IN  (IsAdd /\ lastOp.fault.kind # "none" /\ lastOp.existed /\ UniqueIds(LastDf)
           /\ upToJ # earlier)
            => /\ lastOp.raised
               /\ \A i \in earlier : RowId(LastDf[i]) \in Ids(docs)
               /\ lastOp.before \subseteq docs
               /\ Ids(docs) \ Ids(lastOp.before) \subseteq {RowId(LastDf[i]) : i \in earlier}
               /\ lastOp.written = Cardinality(earlier)
               /\ lastOp.encoded <= Cardinality(upToJ)
               /\ lastOp.encodeCalls <= j
               /\ lastOp.addCalls <= j

C14_Witness ==
    /\ IsAdd /\ lastOp.raised /\ lastOp.existed /\ UniqueIds(LastDf)
    /\ lastOp.fault.kind = "add" /\ lastOp.fault.batch = 2
    /\ lastOp.written = 1
    /\ Cardinality(docs) = Cardinality(lastOp.before) + 1

(***************************************************************************)
(* C15: add_events(D) called again right after an add_events(D) that       *)
(* raised with rows already committed (D with unique IDs, nothing failing  *)
(* this time) returns, and the store then holds exactly one document for   *)
(* the ID of every non-blank row of D and none for a blank row.            *)
(***************************************************************************)
C15_SafeRetry ==
    (IsAdd /\ lastOp.prev = "add_partial" /\ lastOp.fault = NoFault /\ UniqueIds(LastDf))
        => /\ Returned
           /\ \A i \in NonBlankRows(LastDf) :
                 Cardinality(StoredFor(RowId(LastDf[i]))) = 1
           /\ \A i \in 1..Len(LastDf) :
                 RowBlank(LastDf[i]) => StoredFor(RowId(LastDf[i])) = {}
           /\ lastOp.before \subseteq docs

C15_Witness ==
    /\ IsAdd /\ lastOp.prev = "add_partial" /\ lastOp.fault = NoFault
    /\ UniqueIds(LastDf) /\ Returned
    /\ Len(lastOp.df) = 2
    /\ lastOp.batch_size = 2
    /\ Cardinality(docs) = Cardinality(lastOp.before) + 1

(***************************************************************************)
(* C16: reset_database never raises.  It returns True exactly when the     *)
(* collection was deleted and created again, and the collection is then    *)
(* in place and empty; it returns False when a step failed, and the store  *)
(* is then as it was (the delete failed) or without the collection (the    *)
(* create failed).                                                         *)
(***************************************************************************)
C16_ResetNeverRaises ==
    lastOp.op = "reset"
        => /\ Returned
           /\ lastOp.ret \in {0, 1}
           /\ lastOp.ret = 1 <=> (lastOp.existed /\ lastOp.fault.kind = "none")
           /\ lastOp.ret = 1 => (exists /\ docs = {})
           /\ lastOp.ret = 0 =>
                 \/ docs = lastOp.before /\ exists = lastOp.existed
                 \/ docs = {} /\ ~exists /\ lastOp.fault.kind = "create"

C16_Witness ==
    /\ lastOp.op = "reset" /\ Returned
    /\ lastOp.ret = 0
    /\ lastOp.fault.kind = "create"
    /\ lastOp.before # {}
    /\ ~exists

(***************************************************************************)
(* C17: constructing a manager does not raise and leaves the collection in *)
(* place: created empty when it was absent, opened with the documents it   *)
(* held when it was there, so that the count after the construction is the *)
(* count before it.                                                        *)
(***************************************************************************)
C17_OpenOrCreate ==
    lastOp.op = "construct"
        => /\ Returned
           /\ exists
           /\ ~lastOp.existed => docs = {}
           /\ lastOp.existed => docs = lastOp.before
           /\ Cardinality(docs) = Cardinality(lastOp.before)

C17_Witness ==
    /\ lastOp.op = "construct" /\ Returned
    /\ ~lastOp.existed
    /\ exists /\ docs = {}

(***************************************************************************)
(* C18: get_collection_stats and a search (search_similar_events with any  *)
(* query, k and filter, export_similar_events_df) leave the stored         *)
(* documents, the collection and the manager's configuration as they were; *)
(* a get_collection_stats that returns gives the current document count    *)
(* and the collection name, model name and path given at construction.     *)
(***************************************************************************)
C18_ReadOnlyOperations ==
    /\ config = DefaultConfig
    /\ lastOp.op \in {"stats", "search", "export"}
          => /\ docs = lastOp.before
             /\ exists = lastOp.existed
    /\ (lastOp.op = "stats" /\ Returned)
          => /\ lastOp.stats.total_events = Cardinality(docs)
             /\ lastOp.stats.collection_name = config.collection_name
             /\ lastOp.stats.model_name = config.model_name
             /\ lastOp.stats.db_path = config.db_path

C18_Witness ==
    /\ lastOp.op = "stats" /\ Returned
    /\ lastOp.stats.total_events = 2
    /\ lastOp.stats.collection_name = "event_descriptions"

\* the last search's filter has a non-empty value that no stored document carries
NoStoredMatch ==
    /\ LastFilterItems # {}
    /\ \A d \in docs : \E kv \in LastFilterItems : d.metadata[kv[1]].s # kv[2].s

(***************************************************************************)
(* C19: a search with a non-blank query and k >= 1, on a collection that   *)
(* is in place and either holds no document or holds none matching the     *)
(* filter, returns with an empty sequence of hits and does not raise.      *)
(***************************************************************************)
C19_EmptyMatchNeverRaises ==
    (IsSearch /\ ~LastQueryBlank /\ lastOp.k >= 1 /\ lastOp.existed
       /\ (docs = {} \/ NoStoredMatch))
        => (Returned /\ lastOp.hits = <<>>)

\* the part of a category after its last "/", the whole of it when it has none
FinalSegment(c) ==
    LET start == CHOOSE k \in 1..(Len(c) + 1) :
                   /\ \A i \in k..Len(c) : c[i] # "/"
                   /\ k = 1 \/ c[k - 1] = "/"
    IN  SubSeq(c, start, Len(c))

\* title, then ". " and the description, then the category label and the
\* category's last segment, then the district label and the district, each
\* part only when its normalised field is not empty
Concatenated(row) ==
    LET t == clean_text(row.TITULO)
        d == clean_text(row.DESCRIPCION)
        c == clean_text(row.TIPO)
        z == clean_text(row.DISTRITO)
    IN  t \o (IF d # <<>> THEN <<".", " ">> \o d ELSE <<>>)
          \o (IF c # <<>> THEN CategoryLabel \o FinalSegment(c) ELSE <<>>)
          \o (IF z # <<>> THEN DistrictLabel \o z ELSE <<>>)

(***************************************************************************)
(* C21 as stated: the composed text is the concatenation of the normalised *)
(* title and the separated and labelled non-empty other parts, and it is   *)
(* empty exactly when all four fields normalise to the empty string.       *)
(***************************************************************************)
C21_ComposedText ==
    (call.fn = "prepare_event_text" /\ call.done)
        => /\ call.out = Concatenated(call.arg)
           /\ call.out = <<>>
                 <=> /\ clean_text(call.arg.TITULO) = <<>>
                     /\ clean_text(call.arg.DESCRIPCION) = <<>>
                     /\ clean_text(call.arg.TIPO) = <<>>
                     /\ clean_text(call.arg.DISTRITO) = <<>>

(***************************************************************************)
(* C21 amended: the composed text is that concatenation with the           *)
(* whitespace at its two ends stripped, and it is empty exactly when the   *)
(* normalised title is empty or only whitespace and the other three        *)
(* fields normalise to the empty string.                                   *)
(***************************************************************************)
C21_ComposedTextStripped ==
    (call.fn = "prepare_event_text" /\ call.done)
        => /\ \E pre, post \in 0..Len(Concatenated(call.arg)) :
                 LET whole == Concatenated(call.arg)
                 IN  /\ pre + post <= Len(whole)
                     /\ call.out = SubSeq(whole, pre + 1, Len(whole) - post)
                     /\ \A i \in 1..pre : whole[i] = " "
                     /\ \A i \in (Len(whole) - post + 1)..Len(whole) : whole[i] = " "
                     /\ call.out # <<>> => (Head(call.out) # " "
                                            /\ call.out[Len(call.out)] # " ")
           /\ call.out = <<>>
                 <=> /\ Range(clean_text(call.arg.TITULO)) \subseteq {" "}
                     /\ clean_text(call.arg.DESCRIPCION) = <<>>
                     /\ clean_text(call.arg.TIPO) = <<>>
                     /\ clean_text(call.arg.DISTRITO) = <<>>

C21_Witness ==
    /\ call.fn = "prepare_event_text" /\ call.done
    /\ call.arg.TITULO = Str(<<"<", "a", ">", " ", "b">>)
    /\ call.arg.TIPO = Str(<<"b", "/", "c">>)
    /\ clean_text(call.arg.DESCRIPCION) = <<" ">>
    /\ Head(call.out) = "b"

(***************************************************************************)
(* C22: every value of the metadata of every stored document is a string,  *)
(* also when the field of the record was missing, and the 'type' value is  *)
(* the record's whole category path.                                       *)
(***************************************************************************)
C22_MetadataStrings ==
    \A d \in docs :
        /\ \A key \in DOMAIN d.metadata : d.metadata[key].kind = "str"
        /\ \E r \in Range(Catalogue) :
              /\ RowId(r) = d.id
              /\ d.metadata.type.s = PyStr(r.TIPO)

(***************************************************************************)
(* C23: add_events of a dataset with unique IDs whose rows miss any of     *)
(* their other fields returns (nothing failing underneath, the collection  *)
(* in place); a row with a non-blank text field is then stored, a row all  *)
(* of whose text fields are missing or blank is skipped, and the count     *)
(* returned is the number of the rows stored.                              *)
(***************************************************************************)
C23_MissingFieldsTolerated ==
    (IsAdd /\ lastOp.fault = NoFault /\ lastOp.existed /\ UniqueIds(LastDf))
        => /\ Returned
           /\ \A i \in 1..Len(LastDf) :
                 IF RowBlank(LastDf[i])
                 THEN StoredFor(RowId(LastDf[i])) = {}
                 ELSE StoredFor(RowId(LastDf[i])) # {}
           /\ lastOp.ret = Cardinality(NonBlankRows(LastDf))

C23_Witness ==
    /\ IsAdd /\ lastOp.fault = NoFault /\ lastOp.existed /\ Returned
    /\ lastOp.df = <<2, 3>>
    /\ LastDf[1].TITULO = NaN /\ LastDf[2].DESCRIPCION = NaN
    /\ lastOp.ret = 1
    /\ Cardinality(docs) = Cardinality(lastOp.before) + 1

(***************************************************************************)
(* C24: after a reset_database that returned False on a collection that    *)
(* was in place, the manager's collection is still in place and holds the  *)
(* documents it held before the call (so that get_collection_stats and a   *)
(* search do not fail on a missing collection).                            *)
(***************************************************************************)
C24_FailedResetKeepsCollection ==
    (lastOp.op = "reset" /\ lastOp.ret = 0 /\ lastOp.existed)
        => (exists /\ docs = lastOp.before)

(***************************************************************************)
(* C25: a call that is not reset_database (a construction, an add_events,  *)
(* a search, a get_collection_stats) removes no event ID from the store    *)
(* and does not lower the number of stored documents.                      *)
(***************************************************************************)
C25_OnlyResetRemoves ==
    [][lastOp'.op # "reset"
         => /\ Ids(docs) \subseteq Ids(docs')
            /\ Cardinality(docs') >= Cardinality(docs)]_vars

C25_Witness ==
    /\ IsAdd /\ lastOp.raised
    /\ Cardinality(lastOp.before) = 1
    /\ lastOp.before \subseteq docs
    /\ Cardinality(docs) = 2

(***************************************************************************)
(* C26: every stored document is aligned: its text is the composed text,   *)
(* its metadata the metadata and its embedding the embedding of that text, *)
(* all of one and the same record handed to add_events under its ID, also  *)
(* when blank rows of its batch were skipped.                              *)
(***************************************************************************)
C26_RowAlignment ==
    \A d \in docs :
        \E r \in Range(Catalogue) :
            /\ d.id = RowId(r)
            /\ d.document = prepare_event_text(r)
            /\ d.metadata = RowMetadata(r)
            /\ d.embedding = Embed(prepare_event_text(r))

C26_Witness ==
    /\ IsAdd /\ Returned
    /\ lastOp.batch_size = 2
    /\ lastOp.df = <<3, 2>>
    /\ lastOp.before = {}
    /\ lastOp.addCalls = 1 /\ lastOp.written = 1
    /\ Ids(docs) = {RowId(Catalogue[2])}

\* the batches 1..b of df, one after the other
RECURSIVE BatchesJoined(_, _, _)
BatchesJoined(df, batch_size, b) ==
    IF b = 0 THEN <<>>
    ELSE BatchesJoined(df, batch_size, b - 1) \o Batch(df, batch_size, b)

\* the batches of df that hold a row with a non-empty composed text
BatchesWithText(df, batch_size) ==
    {b \in 1..Len(df) :
       \E i \in ComposedRows(df) : (b - 1) * batch_size < i /\ i <= b * batch_size}

(***************************************************************************)
(* C27: the batches of add_events(D, batch_size) are consecutive, of at    *)
(* most batch_size rows, and together they are D in its order; a call that *)
(* returns has made one embedding call and one store write for each batch  *)
(* with a non-blank row and none for the others; and on an empty store,    *)
(* for D with unique IDs, the count returned and the documents stored are  *)
(* those of the non-blank rows of D whatever the batch size.               *)
(***************************************************************************)
C27_BatchingTransparent ==
    (IsAdd /\ lastOp.df # <<>>)
        => /\ \A b \in 1..Len(LastDf) : Len(Batch(LastDf, lastOp.batch_size, b))
                                            <= lastOp.batch_size
           /\ BatchesJoined(LastDf, lastOp.batch_size, Len(LastDf)) = LastDf
           /\ (Returned /\ lastOp.fault = NoFault)
                 => /\ lastOp.encodeCalls
                         = Cardinality(BatchesWithText(LastDf, lastOp.batch_size))
                    /\ lastOp.addCalls = lastOp.encodeCalls
           /\ (Returned /\ lastOp.fault = NoFault /\ lastOp.before = {}
                  /\ UniqueIds(LastDf))
                 => /\ lastOp.ret = Cardinality(ComposedRows(LastDf))
                    /\ docs = {[id |-> RowId(LastDf[i]),
                                document |-> prepare_event_text(LastDf[i]),
                                metadata |-> RowMetadata(LastDf[i]),
                                embedding |-> Embed(prepare_event_text(LastDf[i]))] :
                               i \in ComposedRows(LastDf)}

C27_Witness ==
    /\ IsAdd /\ Returned /\ lastOp.fault = NoFault /\ lastOp.before = {}
    /\ lastOp.batch_size = 1
    /\ lastOp.df = <<3, 1>>
    /\ lastOp.encodeCalls = 1 /\ lastOp.addCalls = 1
    /\ lastOp.ret = 1

\* the last search was given a filter with keys, all of whose values are empty
LastFilterAllEmpty ==
    /\ lastOp.filter \in DOMAIN Filters
    /\ Filters[lastOp.filter].given
    /\ Filters[lastOp.filter].items # <<>>
    /\ \A kv \in Range(Filters[lastOp.filter].items) : ~Truthy(kv[2])

(***************************************************************************)
(* C28: a search with a non-blank query whose filter holds only empty      *)
(* values returns, with hits the same search without a filter can return.  *)
(***************************************************************************)
C28_EmptyFilterValuesIgnored ==
    (lastOp.op = "search" /\ ~LastQueryBlank /\ lastOp.existed /\ LastFilterAllEmpty)
        => /\ Returned
           /\ \E r \in search_similar_events(docs, exists, Queries[lastOp.query],
                                              lastOp.k, NoFilter, FALSE) :
                 r.hits = lastOp.hits

(***************************************************************************)
(* C29: initialize_embedding_manager calls add_events exactly when the     *)
(* persistence directory is absent or empty and the dataset is not empty.  *)
(* On a directory that is not empty it returns a manager on the collection *)
(* with the documents that were there, whatever the dataset holds; on an   *)
(* absent or empty directory with an empty dataset it returns no manager   *)
(* and touches nothing; otherwise it ingests the dataset into a new        *)
(* collection.                                                             *)
(***************************************************************************)
C29_BootstrapFreshOnly ==
    lastOp.op = "bootstrap"
        => /\ lastOp.ingested <=> (~lastOp.dirBefore /\ lastOp.df # <<>>)
           /\ lastOp.dirBefore
                 => /\ Returned /\ lastOp.ret = 1
                    /\ exists
                    /\ docs = lastOp.before
                    /\ lastOp.encodeCalls = 0 /\ lastOp.addCalls = 0
           /\ (~lastOp.dirBefore /\ lastOp.df = <<>>)
                 => /\ Returned /\ lastOp.ret = 0
                    /\ docs = lastOp.before
                    /\ exists = lastOp.existed
                    /\ ~dirFilled
           /\ (~lastOp.dirBefore /\ lastOp.df # <<>> /\ Returned)
                 => /\ lastOp.ret = 1
                    /\ exists /\ dirFilled
                    /\ Ids(docs) = {RowId(LastDf[i]) : i \in ComposedRows(LastDf)}

C29_Witness ==
    /\ lastOp.op = "bootstrap"
    /\ lastOp.dirBefore
    /\ lastOp.df = <<1, 2>>
    /\ Ids(lastOp.before) = {RowId(Catalogue[1])}
    /\ docs = lastOp.before
    /\ lastOp.ret = 1

(***************************************************************************)
(* C30: for a non-blank query the search page's pipeline completes without *)
(* raising, also when the manager returns no result; the ranks of the rows *)
(* displayed are 1..n, the rows are the manager's results in their order   *)
(* with some left out, and each satisfies every selected filter and has a  *)
(* date inside the selected range.                                         *)
(***************************************************************************)
C30_PostFiltering ==
    (lastOp.op = "page" /\ ~LastQueryBlank)
        => /\ Returned
           /\ \A i \in 1..Len(lastOp.rows) : lastOp.rows[i].rank = i
           /\ \E pos \in [1..Len(lastOp.rows) -> 1..Len(lastOp.hits)] :
                 /\ \A i \in 1..(Len(lastOp.rows) - 1) : pos[i] < pos[i + 1]
                 /\ \A i \in 1..Len(lastOp.rows) :
                       lastOp.rows[i].event_id = lastOp.hits[pos[i]].id
           /\ \A i \in 1..Len(lastOp.rows) :
                 /\ \A j \in 1..Len(PageFilters[lastOp.filter]) :
                       RowPasses(lastOp.rows[i], PageFilters[lastOp.filter][j])
                 /\ to_datetime(lastOp.rows[i].date) >= lastOp.dates[1]
                 /\ to_datetime(lastOp.rows[i].date) <= lastOp.dates[2]

====
